---- MODULE Spec2Model ----
(***************************************************************************)
(* docs/examples/sendTelemetry.py of crafted-climate-api: three functions  *)
(* that each build one HTTP POST (register_user, send_telemetry,           *)
(* create_deployment), handle its outcome inside try/except, and a driver  *)
(* main() that calls them in order inside one try/except Exception.        *)
(*                                                                         *)
(* Conventions.  An optional value (Python None or an object) is a         *)
(* sequence of length 0 or 1.  A decoded JSON value and the str() of an    *)
(* exception are records [type, repr].  A printed line is a record         *)
(* [text, arg]: the first positional argument of print() and, when there   *)
(* is one, the second.  The remote server and the network are the          *)
(* environment: every requests.post call blocks until the environment      *)
(* supplies an outcome (a response or an exception).                       *)
(***************************************************************************)
EXTENDS Naturals, Sequences, FiniteSets, TLC

VARIABLES
    config,            \* the module-level dict of lines 6-16
    requests_version,  \* which requests release is installed (not pinned by the repository)
    caller,            \* "main": run as a script (line 114); "direct": functions called by an importer
    main_pc,           \* position of main(): "start", the line of the call it is blocked in, "done"
    frame,             \* the operation blocked in requests.post, if any: <<[op, device_id]>>
    ret,               \* outcome of the operation that just finished, not yet seen by main()
    invoked,           \* history: operations invoked, in order
    sent,              \* history: requests handed to requests.post, in order
    results,           \* history: how every finished invocation ended
    stdout,            \* everything printed so far
    escaped            \* TRUE once an exception has propagated out of main()

vars == <<config, requests_version, caller, main_pc, frame, ret, invoked, sent, results, stdout, escaped>>

-----------------------------------------------------------------------------
(* Bounds of the model *)

\* number of invocations an importing caller makes in one run
MaxCalls == 2

-----------------------------------------------------------------------------
(* Configuration: lines 6-16 *)

MockConfig ==
    [ base_url     |-> "http://localhost:4010",
      api_key      |-> "cc_test_123456789",
      access_token |-> "eyJhbGciOiJIUzI1NiIsInR5cCI6IkpXVCJ9.eyJ1c2VySWQiOiJ0ZXN0MTIzIn0.mock",
      user_id      |-> "test123" ]

\* the edit the comments of lines 9-12 ask for: production URL, own credentials
ProdConfig ==
    [ base_url     |-> "https://api.craftedclimate.com",
      api_key      |-> "cc_live_000000001",
      access_token |-> "eyJhbGciOiJIUzI1NiJ9.live",
      user_id      |-> "user42" ]

Configs == {MockConfig, ProdConfig}

-----------------------------------------------------------------------------
(* Python values *)

None == <<>>
Some(x) == <<x>>

\* a float literal: mantissa / 10^scale
PyFloat(m, s) == [type |-> "float", num |-> m, scale |-> s]
PyInt(n) == [type |-> "int", num |-> n, scale |-> 0]

\* a multipart field given as the tuple (None, value): no filename
FormField(v) == [filename |-> None, value |-> v]

Line(text, arg) == [text |-> text, arg |-> arg]

-----------------------------------------------------------------------------
(* The environment: what a requests.post call can come back with *)

Statuses == {200, 201, 300, 404, 500}

\* response bodies as sent on the wire
BodyTexts == {"{\"id\": \"abc123\"}", "{\"error\": \"bad request\"}", "<html>Bad Gateway</html>"}

Responses == [status : Statuses, text : BodyTexts]

\* requests.exceptions raised by requests.post itself on a transport failure
\* (connection refused, timeout, DNS): no response was received, e.response is None
PostExceptions ==
    { [cls |-> "ConnectionError", request_exception |-> TRUE, response |-> None, msg |-> "Connection refused"] }

Outcomes ==
    { [kind |-> "response", response |-> Some(r), exc |-> None] : r \in Responses }
    \cup { [kind |-> "exception", response |-> None, exc |-> Some(e)] : e \in PostExceptions }

RequestsVersions == {"<2.27", ">=2.27"}

\* device ids an importing caller passes explicitly (besides passing none)
DeviceIds == {"greenhouse-7"}

-----------------------------------------------------------------------------
(* The requests library, as far as the script relies on it *)

\* str(e)
str(e) == [type |-> "str", repr |-> e.msg]

\* isinstance(e, requests.exceptions.RequestException): the except clauses of
\* lines 35, 63, 90
is_RequestException(e) == e.request_exception

\* Response.raise_for_status(): HTTPError for 400 <= status < 600, nothing otherwise
raise_for_status(response) ==
    IF 400 <= response.status /\ response.status < 500
    THEN Some([cls |-> "HTTPError", request_exception |-> TRUE,
               response |-> Some(response), msg |-> "Client Error"])
    ELSE IF 500 <= response.status /\ response.status < 600
    THEN Some([cls |-> "HTTPError", request_exception |-> TRUE,
               response |-> Some(response), msg |-> "Server Error"])
    ELSE None

\* json.loads on the body text: the decoded value, or failure
json_loads(text) ==
    CASE text = "{\"id\": \"abc123\"}" ->
            [ok |-> TRUE, value |-> [type |-> "dict", repr |-> "{'id': 'abc123'}"]]
      [] text = "{\"error\": \"bad request\"}" ->
            [ok |-> TRUE, value |-> [type |-> "dict", repr |-> "{'error': 'bad request'}"]]
      [] OTHER ->
            [ok |-> FALSE, value |-> [type |-> "NoneType", repr |-> "None"]]

\* Response.json()
Response_json(response) == json_loads(response.text)

\* what Response.json() raises on an undecodable body: requests >= 2.27 raises
\* requests.exceptions.JSONDecodeError (a RequestException, response None),
\* older releases let json/simplejson's ValueError subclass through
JSONDecodeError ==
    [cls |-> "JSONDecodeError", request_exception |-> (requests_version = ">=2.27"),
     response |-> None, msg |-> "Expecting value"]

\* hasattr(e.response, 'json'): None has no such attribute, a Response always has
hasattr_json(response_or_none) == response_or_none # None

-----------------------------------------------------------------------------
(* The try/except block shared, line for line, by the three operations *)

Returned(printed, value) ==
    [printed |-> printed, caught |-> None, kind |-> "return", value |-> Some(value), exc |-> None]

Raised(printed, caught, e) ==
    [printed |-> printed, caught |-> caught, kind |-> "raise", value |-> None, exc |-> Some(e)]

\* mutant: the success path prints the decoded body but has lost its return statement
try_block_no_return(success_msg, o) ==
    IF o.kind = "exception"
    THEN Raised(<<>>, None, o.exc[1])
    ELSE LET response == o.response[1]
             err == raise_for_status(response)
         IN  IF err # None
             THEN Raised(<<>>, None, err[1])
             ELSE IF ~Response_json(response).ok
             THEN Raised(<<>>, None, JSONDecodeError)
             ELSE Returned(<<Line(success_msg, Some(Response_json(response).value))>>,
                           [type |-> "NoneType", repr |-> "None"])

\* mutant: an undecodable body falls back to the raw text and counts as success
try_block_text_fallback(success_msg, o) ==
    IF o.kind = "exception"
    THEN Raised(<<>>, None, o.exc[1])
    ELSE LET response == o.response[1]
             err == raise_for_status(response)
             body == IF Response_json(response).ok
                     THEN Response_json(response).value
                     ELSE [type |-> "str", repr |-> response.text]
         IN  IF err # None
             THEN Raised(<<>>, None, err[1])
             ELSE Returned(<<Line(success_msg, Some(body))>>, body)

\* the try suite: post, raise_for_status, print the decoded body, return the decoded body
try_block(success_msg, o) ==
    IF o.kind = "exception"
    THEN Raised(<<>>, None, o.exc[1])
    ELSE LET response == o.response[1]
             err == raise_for_status(response)
         IN  IF err # None
             THEN Raised(<<>>, None, err[1])
             ELSE IF ~Response_json(response).ok
             THEN Raised(<<>>, None, JSONDecodeError)
             ELSE Returned(<<Line(success_msg, Some(Response_json(response).value))>>,
                           Response_json(response).value)

\* the except suite for a caught e: print the diagnostic, print e.response.json()
\* when e.response has a json attribute, then the bare raise
except_block(failure_msg, e) ==
    LET diagnostic == Line(failure_msg, Some(str(e)))
    IN  IF hasattr_json(e.response)
        THEN IF ~Response_json(e.response[1]).ok
             THEN Raised(<<diagnostic>>, Some(e), JSONDecodeError)
             ELSE Raised(<<diagnostic, Line("", Some(Response_json(e.response[1]).value))>>, Some(e), e)
        ELSE Raised(<<diagnostic>>, Some(e), e)

try_except(success_msg, failure_msg, o) ==
    LET t == try_block(success_msg, o)
    IN  IF t.kind = "raise" /\ is_RequestException(t.exc[1])
        THEN except_block(failure_msg, t.exc[1])
        ELSE t

-----------------------------------------------------------------------------
(* register_user: lines 18-39 *)

register_user_request ==
    [ method  |-> "POST",
      url     |-> config.base_url \o "/api/auth/signup",
      kind    |-> "files",
      body    |-> [ username |-> FormField("testuser"),
                    email    |-> FormField("test@example.com"),
                    password |-> FormField("securepass123"),
                    contact  |-> FormField("233555123456") ],
      headers |-> <<>> ]

register_user_response(o) == try_except("Registration successful:", "Registration failed:", o)

(* send_telemetry: lines 41-67 *)

send_telemetry_default == "device123"

send_telemetry_device_id(args) == IF args = <<>> THEN send_telemetry_default ELSE args[1]

\* mutant: humidity sent as a float like the other two readings
send_telemetry_request_float_h(device_id) ==
    [ method  |-> "POST",
      url     |-> config.base_url \o "/api/telemetry/env",
      kind    |-> "json",
      body    |-> [ i |-> device_id,
                    t |-> PyFloat(254, 1),
                    h |-> PyFloat(650, 1),
                    p |-> PyFloat(101325, 2) ],
      headers |-> ("Content-Type" :> "application/json") @@ ("X-API-Key" :> config.api_key) ]

send_telemetry_request(device_id) ==
    [ method  |-> "POST",
      url     |-> config.base_url \o "/api/telemetry/env",
      kind    |-> "json",
      body    |-> [ i |-> device_id,
                    t |-> PyFloat(254, 1),
                    h |-> PyInt(65),
                    p |-> PyFloat(101325, 2) ],
      headers |-> ("Content-Type" :> "application/json") @@ ("X-API-Key" :> config.api_key) ]

send_telemetry_response(o) == try_except("Telemetry sent successfully:", "Failed to send telemetry:", o)

(* create_deployment: lines 69-94 *)

\* mutant: the bearer header built from the API key instead of the access token
create_deployment_request_api_key ==
    [ method  |-> "POST",
      url     |-> config.base_url \o "/api/devices/create-deployments",
      kind    |-> "json",
      body    |-> [ userid      |-> config.user_id,
                    name        |-> "Test Deployment",
                    description |-> "Test deployment created via Python example" ],
      headers |-> ("Content-Type" :> "application/json")
                  @@ ("Authorization" :> ("Bearer " \o config.api_key)) ]

create_deployment_request ==
    [ method  |-> "POST",
      url     |-> config.base_url \o "/api/devices/create-deployments",
      kind    |-> "json",
      body    |-> [ userid      |-> config.user_id,
                    name        |-> "Test Deployment",
                    description |-> "Test deployment created via Python example" ],
      headers |-> ("Content-Type" :> "application/json")
                  @@ ("Authorization" :> ("Bearer " \o config.access_token)) ]

create_deployment_response(o) == try_except("Deployment created successfully:", "Failed to create deployment:", o)

-----------------------------------------------------------------------------
(* Calls and returns *)

Init ==
    /\ config \in Configs
    /\ requests_version \in RequestsVersions
    /\ caller \in {"main", "direct"}
    /\ main_pc = "start"
    /\ frame = None
    /\ ret = None
    /\ invoked = <<>>
    /\ sent = <<>>
    /\ results = <<>>
    /\ stdout = <<>>
    /\ escaped = FALSE

\* entering an operation: it builds its request and blocks in requests.post
\* (lines 20-31, 43-59, 71-86)
op_call(op, args, request) ==
    /\ frame' = Some([op |-> op, args |-> args])
    /\ invoked' = Append(invoked, [op |-> op, args |-> args])
    /\ sent' = Append(sent, [op |-> op, args |-> args, request |-> request])

\* requests.post came back with outcome o and the rest of the operation ran,
\* ending as h says (lines 31-39, 59-67, 86-94)
op_returns(op, o, h) ==
    /\ frame # None
    /\ frame[1].op = op
    /\ frame' = None
    /\ ret' = Some(h)
    /\ stdout' = stdout \o h.printed
    /\ results' = Append(results, [op |-> op, args |-> frame[1].args, outcome |-> o,
                                   printed |-> h.printed, caught |-> h.caught,
                                   kind |-> h.kind, value |-> h.value, exc |-> h.exc])
    /\ UNCHANGED <<requests_version, caller, main_pc, invoked, sent, escaped>>

\* mutant: a successful registration stores the returned body as the configured user id
register_user_stores_id ==
    \E o \in Outcomes :
        /\ op_returns("register_user", o, register_user_response(o))
        /\ config' = IF register_user_response(o).kind = "return"
                     THEN [config EXCEPT !.user_id = register_user_response(o).value[1].repr]
                     ELSE config

register_user ==
    /\ \E o \in Outcomes : op_returns("register_user", o, register_user_response(o))
    /\ UNCHANGED config

\* mutant: a failed POST is issued once more before the operation gives up
send_telemetry_retry ==
    \E o \in Outcomes :
        IF send_telemetry_response(o).kind = "raise" /\ Len(sent) = Len(invoked)
        THEN /\ frame # None
             /\ frame[1].op = "send_telemetry"
             /\ sent' = Append(sent, sent[Len(sent)])
             /\ stdout' = stdout \o send_telemetry_response(o).printed
             /\ UNCHANGED <<config, requests_version, caller, main_pc, frame, ret,
                            invoked, results, escaped>>
        ELSE /\ op_returns("send_telemetry", o, send_telemetry_response(o))
             /\ UNCHANGED config

send_telemetry ==
    /\ \E o \in Outcomes : op_returns("send_telemetry", o, send_telemetry_response(o))
    /\ UNCHANGED config

create_deployment ==
    /\ \E o \in Outcomes : op_returns("create_deployment", o, create_deployment_response(o))
    /\ UNCHANGED config

-----------------------------------------------------------------------------
(* main: lines 96-112 *)

\* mutant: the driver goes on to the next statement whatever the call did
main_continue_always(h) == TRUE

\* inside the try suite the statement after a call runs only if the call returned
main_continue(h) == h.kind = "return"

\* mutant: the driver catches requests' own exceptions only
main_catches_request_exceptions(e) == e.request_exception

\* except Exception (line 111): every exception the operations raise derives from Exception
main_catches(e) ==
    e.cls \in {"HTTPError", "ConnectionError", "JSONDecodeError"}

\* lines 111-112, or the exception leaving main
main_except(h) ==
    /\ IF main_catches(h.exc[1])
       THEN /\ stdout' = Append(stdout, Line("\nExample run failed:", Some(str(h.exc[1]))))
            /\ UNCHANGED escaped
       ELSE /\ escaped' = TRUE
            /\ UNCHANGED stdout
    /\ main_pc' = "done"
    /\ ret' = None
    /\ UNCHANGED <<frame, invoked, sent>>

\* lines 98-102
main_start ==
    /\ caller = "main"
    /\ main_pc = "start"
    /\ stdout' = stdout \o << Line("Running CraftedClimate API Examples...\n", None),
                              Line("1. Registering user...", None) >>
    /\ op_call("register_user", <<>>, register_user_request)
    /\ main_pc' = "L102"
    /\ UNCHANGED <<config, requests_version, caller, ret, results, escaped>>

\* register_user() came back: lines 104-105, or the except clause
main_after_register_user ==
    /\ caller = "main"
    /\ main_pc = "L102"
    /\ ret # None
    /\ IF main_continue(ret[1])
       THEN /\ stdout' = Append(stdout, Line("\n2. Sending telemetry...", None))
            /\ op_call("send_telemetry", <<>>, send_telemetry_request(send_telemetry_device_id(<<>>)))
            /\ main_pc' = "L105"
            /\ ret' = None
            /\ UNCHANGED escaped
       ELSE main_except(ret[1])
    /\ UNCHANGED <<config, requests_version, caller, results>>

\* send_telemetry() came back: lines 107-108, or the except clause
main_after_send_telemetry ==
    /\ caller = "main"
    /\ main_pc = "L105"
    /\ ret # None
    /\ IF main_continue(ret[1])
       THEN /\ stdout' = Append(stdout, Line("\n3. Creating deployment...", None))
            /\ op_call("create_deployment", <<>>, create_deployment_request)
            /\ main_pc' = "L108"
            /\ ret' = None
            /\ UNCHANGED escaped
       ELSE main_except(ret[1])
    /\ UNCHANGED <<config, requests_version, caller, results>>

\* create_deployment() came back: line 110, or the except clause
main_after_create_deployment ==
    /\ caller = "main"
    /\ main_pc = "L108"
    /\ ret # None
    /\ IF main_continue(ret[1])
       THEN /\ stdout' = Append(stdout, Line("\nAll examples completed successfully!", None))
            /\ main_pc' = "done"
            /\ ret' = None
            /\ UNCHANGED <<frame, invoked, sent, escaped>>
       ELSE main_except(ret[1])
    /\ UNCHANGED <<config, requests_version, caller, results>>

-----------------------------------------------------------------------------
(* The module imported and its functions called one at a time *)

direct_call(op, args, request) ==
    /\ caller = "direct"
    /\ frame = None
    /\ Len(invoked) < MaxCalls
    /\ op_call(op, args, request)
    /\ ret' = None
    /\ UNCHANGED <<config, requests_version, caller, main_pc, results, stdout, escaped>>

call_register_user == direct_call("register_user", <<>>, register_user_request)

call_send_telemetry ==
    \E args \in {<<>>} \cup {<<d>> : d \in DeviceIds} :
        direct_call("send_telemetry", args, send_telemetry_request(send_telemetry_device_id(args)))

call_create_deployment == direct_call("create_deployment", <<>>, create_deployment_request)

-----------------------------------------------------------------------------

Next ==
    \/ main_start
    \/ main_after_register_user
    \/ main_after_send_telemetry
    \/ main_after_create_deployment
    \/ register_user
    \/ send_telemetry
    \/ create_deployment
    \/ call_register_user
    \/ call_send_telemetry
    \/ call_create_deployment

Spec == Init /\ [][Next]_vars

-----------------------------------------------------------------------------
(* Vocabulary of the properties *)

MainOrder == <<"register_user", "send_telemetry", "create_deployment">>

SuccessText(op) ==
    CASE op = "register_user" -> "Registration successful:"
      [] op = "send_telemetry" -> "Telemetry sent successfully:"
      [] op = "create_deployment" -> "Deployment created successfully:"

FailureText(op) ==
    CASE op = "register_user" -> "Registration failed:"
      [] op = "send_telemetry" -> "Failed to send telemetry:"
      [] op = "create_deployment" -> "Failed to create deployment:"

SuccessTexts == {SuccessText(op) : op \in {"register_user", "send_telemetry", "create_deployment"}}

CompletedText == "\nAll examples completed successfully!"
FailedText == "\nExample run failed:"

Is2xx(o) == o.kind = "response" /\ 200 <= o.response[1].status /\ o.response[1].status <= 299

IsErrorStatus(o) == o.kind = "response" /\ 400 <= o.response[1].status /\ o.response[1].status <= 599

HasJsonBody(o) == o.kind = "response" /\ json_loads(o.response[1].text).ok

NumLines(text) == Cardinality({i \in DOMAIN stdout : stdout[i].text = text})

Texts(lines) == [i \in DOMAIN lines |-> lines[i].text]

IsSuccessLine(line) == line.text \in SuccessTexts

AllReturned == \A i \in DOMAIN results : results[i].kind = "return"

MainDone == caller = "main" /\ main_pc = "done"

-----------------------------------------------------------------------------
(* C1: in a run of main the operations are invoked in the order            *)
(* register_user, send_telemetry, create_deployment, each only after every *)
(* earlier one returned without raising; once one raises no later one is   *)
(* invoked.                                                                *)
C1_InvokedInOrderUntilFirstRaise ==
    caller = "main" =>
        /\ Len(invoked) <= Len(MainOrder)
        /\ \A i \in DOMAIN invoked : invoked[i].op = MainOrder[i]
        /\ Len(results) <= Len(invoked)
        /\ Len(invoked) <= Len(results) + 1
        /\ \A i \in DOMAIN results : results[i].op = invoked[i].op
        /\ \A i \in DOMAIN invoked : \A j \in 1..(i - 1) : results[j].kind = "return"
        /\ \A j \in DOMAIN results : results[j].kind = "raise" => Len(invoked) = j

\* the driver scenario: telemetry answered 500 with {"error": "bad request"}
C1_Witness ==
    /\ MainDone
    /\ Len(results) = 2
    /\ results[1].op = "register_user" /\ results[1].kind = "return"
    /\ results[2].op = "send_telemetry" /\ results[2].kind = "raise"
    /\ results[2].outcome.kind = "response"
    /\ results[2].outcome.response[1] = [status |-> 500, text |-> "{\"error\": \"bad request\"}"]
    /\ Len(invoked) = 2

(* C2: a run of main whose HTTP calls all complete terminates, no exception *)
(* leaves main, and exactly one final message is printed, last: the        *)
(* completion message iff all three operations returned (then after the    *)
(* three success messages, in order), else the failure message, once.      *)
C2_OneFinalMessage ==
    caller = "main" =>
        /\ ~escaped
        /\ main_pc = "done" \/ ENABLED Next
        /\ main_pc # "done" => NumLines(CompletedText) = 0 /\ NumLines(FailedText) = 0
        /\ main_pc = "done" =>
              /\ NumLines(CompletedText) + NumLines(FailedText) = 1
              /\ stdout[Len(stdout)].text \in {CompletedText, FailedText}
              /\ NumLines(CompletedText) = 1 <=> (Len(results) = 3 /\ AllReturned)
              /\ NumLines(CompletedText) = 1 =>
                    Texts(SelectSeq(stdout, IsSuccessLine))
                        = [i \in 1..3 |-> SuccessText(MainOrder[i])]

C2_Witness ==
    /\ MainDone
    /\ Len(results) = 3 /\ AllReturned
    /\ NumLines(CompletedText) = 1

(* C3: an operation whose POST is answered with a 2xx status and a JSON    *)
(* body prints its success message with the decoded body and returns that  *)
(* same decoded body, without raising.                                     *)
C3_ReturnsDecodedBody ==
    \A i \in DOMAIN results :
        LET r == results[i] IN
        (Is2xx(r.outcome) /\ HasJsonBody(r.outcome)) =>
            /\ r.kind = "return"
            /\ r.exc = None
            /\ r.value = Some(json_loads(r.outcome.response[1].text).value)
            /\ r.printed = <<Line(SuccessText(r.op), r.value)>>

C3_Witness ==
    /\ MainDone
    /\ Len(results) = 3 /\ AllReturned
    /\ \A i \in DOMAIN results : Is2xx(results[i].outcome)
    /\ results[2].outcome.response[1].status = 201
    /\ results[1].value # results[2].value

(* C4: on every status outside 200..299 and on every transport failure the *)
(* operation raises, returns no value and prints no success message.       *)
C4_NonSuccessRaises ==
    \A i \in DOMAIN results :
        LET r == results[i] IN
        ~Is2xx(r.outcome) =>
            /\ r.kind = "raise"
            /\ r.value = None
            /\ \A k \in DOMAIN r.printed : ~IsSuccessLine(r.printed[k])

(* C5: on every failure (an exception from the POST, or an error status)   *)
(* the operation prints its failure diagnostic, prints the response body   *)
(* whenever the failed response carried one, and re-raises the very error  *)
(* it caught; with no response it prints no body and still re-raises.      *)
C5_FailureReraisesCaughtError ==
    \A i \in DOMAIN results :
        LET r == results[i] IN
        (r.outcome.kind = "exception" \/ IsErrorStatus(r.outcome)) =>
            /\ r.kind = "raise"
            /\ r.caught # None
            /\ r.printed # <<>>
            /\ r.printed[1] = Line(FailureText(r.op), Some(str(r.caught[1])))
            /\ r.caught[1].response # None => Len(r.printed) = 2
            /\ r.caught[1].response = None => Len(r.printed) = 1
            /\ r.exc = r.caught

(* C6: every invocation issues exactly one POST whatever its outcome; a    *)
(* run of main issues at most three, at most one per endpoint, and exactly *)
(* k when the k-th operation is the first to fail.                         *)
C6_OnePostPerInvocation ==
    /\ Len(sent) = Len(invoked)
    /\ \A i \in DOMAIN sent : sent[i].op = invoked[i].op /\ sent[i].request.method = "POST"
    /\ caller = "main" =>
          /\ Len(sent) <= 3
          /\ \A i, j \in DOMAIN sent : i # j => sent[i].request.url # sent[j].request.url
    /\ MainDone =>
          /\ \A k \in DOMAIN results : results[k].kind = "raise" => Len(sent) = k
          /\ AllReturned => Len(sent) = 3

C6_Witness ==
    /\ MainDone
    /\ Len(results) = 3
    /\ results[3].kind = "raise"
    /\ results[3].outcome.kind = "exception"
    /\ Len(sent) = 3

Credentials == {config.api_key, config.access_token, "Bearer " \o config.access_token,
                "Bearer " \o config.api_key}

HeaderValues(request) == {request.headers[n] : n \in DOMAIN request.headers}

(* C7: the telemetry request carries X-API-Key = api_key, the deployment   *)
(* request carries Authorization = "Bearer " + access_token, the           *)
(* registration request carries no credential, and neither credential is   *)
(* sent to the other's endpoint.                                           *)
C7_CredentialHeaders ==
    \A i \in DOMAIN sent :
        LET op == sent[i].op
            request == sent[i].request
        IN  /\ op = "send_telemetry" =>
                /\ "X-API-Key" \in DOMAIN request.headers
                /\ request.headers["X-API-Key"] = config.api_key
                /\ HeaderValues(request) \cap Credentials = {config.api_key}
                /\ request.body.i \notin Credentials
            /\ op = "create_deployment" =>
                /\ "Authorization" \in DOMAIN request.headers
                /\ request.headers["Authorization"] = "Bearer " \o config.access_token
                /\ HeaderValues(request) \cap Credentials = {"Bearer " \o config.access_token}
                /\ {request.body.userid, request.body.name, request.body.description}
                      \cap Credentials = {}
            /\ op = "register_user" =>
                /\ DOMAIN request.headers = {}
                /\ \A f \in DOMAIN request.body : request.body[f].value \notin Credentials

C7_Witness ==
    /\ config = ProdConfig
    /\ Len(sent) = 3
    /\ {sent[i].op : i \in DOMAIN sent} = {"register_user", "send_telemetry", "create_deployment"}

(* C8: each operation POSTs to base_url + its fixed path with exactly its  *)
(* documented fields: four form fields with the demo values; i, t, h, p    *)
(* with i the device_id argument (default "device123"), t and p floats     *)
(* and h an integer; userid (the configured user_id), name, description.   *)
C8_UrlsAndPayloads ==
    \A i \in DOMAIN sent :
        LET op == sent[i].op
            args == sent[i].args
            request == sent[i].request
        IN  /\ op = "register_user" =>
                /\ request.url = config.base_url \o "/api/auth/signup"
                /\ request.kind = "files"
                /\ DOMAIN request.body = {"username", "email", "password", "contact"}
                /\ \A f \in DOMAIN request.body : request.body[f].filename = None
                /\ request.body.username.value = "testuser"
                /\ request.body.email.value = "test@example.com"
                /\ request.body.password.value = "securepass123"
                /\ request.body.contact.value = "233555123456"
            /\ op = "send_telemetry" =>
                /\ request.url = config.base_url \o "/api/telemetry/env"
                /\ request.kind = "json"
                /\ DOMAIN request.body = {"i", "t", "h", "p"}
                /\ request.body.i = IF args = <<>> THEN "device123" ELSE args[1]
                /\ request.body.t = [type |-> "float", num |-> 254, scale |-> 1]
                /\ request.body.h = [type |-> "int", num |-> 65, scale |-> 0]
                /\ request.body.p = [type |-> "float", num |-> 101325, scale |-> 2]
            /\ op = "create_deployment" =>
                /\ request.url = config.base_url \o "/api/devices/create-deployments"
                /\ request.kind = "json"
                /\ DOMAIN request.body = {"userid", "name", "description"}
                /\ request.body.userid = config.user_id
                /\ request.body.name = "Test Deployment"
                /\ request.body.description = "Test deployment created via Python example"

C8_Witness ==
    /\ caller = "direct"
    /\ Len(sent) = 2
    /\ sent[1].op = "send_telemetry" /\ sent[1].args = <<"greenhouse-7">>
    /\ sent[1].request.body.i = "greenhouse-7"
    /\ sent[2].op = "send_telemetry" /\ sent[2].args = <<>>
    /\ sent[2].request.body.i = "device123"

SameRequests ==
    \A j, k \in DOMAIN sent :
        (sent[j].op = sent[k].op /\ sent[j].args = sent[k].args)
            => sent[j].request = sent[k].request

(* C9: no step of any operation or of main changes the configuration       *)
(* record, whether the step succeeds or fails, and the request an          *)
(* operation builds does not depend on earlier responses: two invocations  *)
(* of one operation with the same arguments send the same request.         *)
C9_ConfigReadOnly == [][config' = config /\ SameRequests']_vars

C9_Witness ==
    /\ caller = "direct"
    /\ config = ProdConfig
    /\ Len(results) = 2
    /\ results[1].op = "register_user" /\ results[1].kind = "return"
    /\ results[2].op = "register_user" /\ results[2].kind = "raise"
    /\ sent[1].request = sent[2].request

(* C10: a 2xx response whose body is not JSON is a failure: the operation  *)
(* raises, returns nothing and prints no success message, and main then    *)
(* invokes nothing further and prints the failure message, not the         *)
(* completion message.                                                     *)
C10_UndecodableBodyIsFailure ==
    \A i \in DOMAIN results :
        LET r == results[i] IN
        (Is2xx(r.outcome) /\ ~HasJsonBody(r.outcome)) =>
            /\ r.kind = "raise"
            /\ r.value = None
            /\ \A k \in DOMAIN r.printed : ~IsSuccessLine(r.printed[k])
            /\ MainDone =>
                  /\ Len(invoked) = i
                  /\ NumLines(FailedText) = 1
                  /\ NumLines(CompletedText) = 0

C10_Witness ==
    /\ MainDone
    /\ requests_version = "<2.27"
    /\ Len(results) = 2
    /\ results[2].outcome.kind = "response"
    /\ results[2].outcome.response[1] = [status |-> 200, text |-> "<html>Bad Gateway</html>"]
    /\ results[2].kind = "raise"

====
